---- MODULE Spec2Model ----
\* Status server of app/main.py: a Flask application with Talisman security
\* headers, a Flask-Limiter rate limiter on an in-memory store, three routes
\* (/, /health, /ready), and the __main__ block that resolves the port.
EXTENDS Integers, Sequences, FiniteSets, TLC

VARIABLES
    serverState,   \* "STOPPED", "SERVING", or "ABORTED" (uncaught exception in __main__)
    environ,       \* os.environ: each variable is {} (unset) or {value}
    hostname,      \* what socket.gethostname() returns
    port,          \* the port handed to app.run (0 before that)
    now,           \* time.time(), in seconds
    storage,       \* MemoryStorage.storage: counter per limiter key
    expirations,   \* MemoryStorage.expirations: expiry time per limiter key
    last           \* the response of the most recent request

vars == <<serverState, environ, hostname, port, now, storage, expirations, last>>

-----------------------------------------------------------------------------
\* Bounds of the model.

\* seconds the clock advances per Tick
TickSeconds == 60
\* the clock stops advancing here
MaxTime == 60
\* a counter of the store is not driven past this value
MaxHits == 51
\* requests to / in the runs that vary the environment
MaxConfigHits == 2

Clients == {"10.0.0.1", "10.0.0.2"}
Hostnames == {"web-1"}

-----------------------------------------------------------------------------
\* os.environ.get(name, default)

EnvGet(env, name, default) ==
    IF env[name] = {} THEN default ELSE CHOOSE v \in env[name] : TRUE

-----------------------------------------------------------------------------
\* int(text) of Python, on text held as a sequence of one-character strings:
\* surrounding whitespace is stripped, one sign is allowed, then decimal digits
\* with single underscores between them; anything else raises ValueError.

DigitChars == <<"0", "1", "2", "3", "4", "5", "6", "7", "8", "9">>

IsDigit(ch) == \E i \in 1..10 : DigitChars[i] = ch

DigitVal(ch) == (CHOOSE i \in 1..10 : DigitChars[i] = ch) - 1

IsSpace(ch) == ch \in {" ", "\t", "\n"}

RECURSIVE LStrip(_)
LStrip(s) == IF s # <<>> /\ IsSpace(Head(s)) THEN LStrip(Tail(s)) ELSE s

RECURSIVE RStrip(_)
RStrip(s) ==
    IF s # <<>> /\ IsSpace(s[Len(s)]) THEN RStrip(SubSeq(s, 1, Len(s) - 1)) ELSE s

Strip(s) == RStrip(LStrip(s))

\* digits with single underscores between them, no underscore first or last
WellFormedDigits(d) ==
    /\ d # <<>>
    /\ \A i \in 1..Len(d) : IsDigit(d[i]) \/ d[i] = "_"
    /\ IsDigit(d[1]) /\ IsDigit(d[Len(d)])
    /\ \A i \in 1..(Len(d) - 1) : ~(d[i] = "_" /\ d[i + 1] = "_")

RECURSIVE DigitsValue(_, _)
DigitsValue(d, acc) ==
    IF d = <<>> THEN acc
    ELSE IF Head(d) = "_" THEN DigitsValue(Tail(d), acc)
    ELSE DigitsValue(Tail(d), 10 * acc + DigitVal(Head(d)))

\* [ok |-> FALSE] stands for ValueError
ParseInt(text) ==
    LET s    == Strip(text)
        neg  == s # <<>> /\ Head(s) = "-"
        sign == s # <<>> /\ Head(s) \in {"-", "+"}
        d    == IF sign THEN Tail(s) ELSE s
    IN  IF WellFormedDigits(d)
        THEN [ok |-> TRUE, val |-> IF neg THEN 0 - DigitsValue(d, 0) ELSE DigitsValue(d, 0)]
        ELSE [ok |-> FALSE, val |-> 0]

\* str(n): the decimal text of an integer
RECURSIVE NatText(_)
NatText(n) ==
    IF n < 10 THEN <<DigitChars[n + 1]>>
    ELSE NatText(n \div 10) \o <<DigitChars[(n % 10) + 1]>>

IntText(n) == IF n < 0 THEN <<"-">> \o NatText(0 - n) ELSE NatText(n)

-----------------------------------------------------------------------------
\* __main__: the port the server binds.

DefaultPortText == <<"8", "0", "8", "0">>
FallbackPort == 8080
MinPort == 1024
MaxPort == 65535

\* variant: the lower end of the range is not checked
ResolvePortNoLowerBound(n) == IF n <= MaxPort THEN n ELSE FallbackPort

\* if not (1024 <= port <= 65535): port = 8080
ResolvePort(n) == IF ~(MinPort <= n /\ n <= MaxPort) THEN FallbackPort ELSE n

-----------------------------------------------------------------------------
\* Limiter(app, key_func=get_remote_address, default_limits=[...],
\*         storage_uri="memory://") and the decorators on the routes.

Minute == 60
Hour == 3600

DefaultLimits == <<"100 per hour", "20 per minute">>

IndexLimit == "50 per minute"

\* limits.parse: the amount and the window, in seconds, of a limit string
Amount(limit) ==
    CASE limit = "100 per hour"  -> 100
      [] limit = "20 per minute" -> 20
      [] limit = "50 per minute" -> 50

Per(limit) ==
    CASE limit = "100 per hour"  -> Hour
      [] limit = "20 per minute" -> Minute
      [] limit = "50 per minute" -> Minute

\* @limiter.limit(...) decorators, by endpoint
RouteLimits(endpoint) == IF endpoint = "index" THEN <<IndexLimit>> ELSE <<>>

\* @limiter.exempt decorators
ExemptRoutes == {"health", "ready"}

AllLimits == {DefaultLimits[i] : i \in 1..Len(DefaultLimits)} \cup {IndexLimit}

\* the URL map built by the @app.route decorators; "" is no match
Endpoint(path) ==
    CASE path = "/"       -> "index"
      [] path = "/health" -> "health"
      [] path = "/ready"  -> "ready"
      [] OTHER            -> ""

Endpoints == {"index", "health", "ready"}

\* variant: one key for every request
KeyFuncShared(req) == CHOOSE c \in Clients : TRUE

\* key_func: flask_limiter.util.get_remote_address
KeyFunc(req) == req.remote_addr

\* a counter of the store is named by the limit, the endpoint and the key
Keys == AllLimits \X Endpoints \X Clients

\* variant: the decorator's limits are added to the defaults
LimitsForCompound(endpoint) ==
    IF endpoint = "" \/ endpoint \in ExemptRoutes THEN <<>>
    ELSE RouteLimits(endpoint) \o DefaultLimits

\* variant: the exemptions are not honoured
LimitsForNoExempt(endpoint) ==
    IF endpoint = "" THEN <<>>
    ELSE IF RouteLimits(endpoint) # <<>> THEN RouteLimits(endpoint)
    ELSE DefaultLimits

\* The limits of an endpoint: none for an exempt route or an unmatched path;
\* the decorator's limits replace the defaults (limit() is called without
\* override_defaults=False); the defaults for any other route.
LimitsFor(endpoint) ==
    IF endpoint = "" \/ endpoint \in ExemptRoutes THEN <<>>
    ELSE IF RouteLimits(endpoint) # <<>> THEN RouteLimits(endpoint)
    ELSE DefaultLimits

\* sorted(limits): shortest window first, then smallest amount
Before(a, b) == Per(a) < Per(b) \/ (Per(a) = Per(b) /\ Amount(a) <= Amount(b))

RECURSIVE Insert(_, _)
Insert(x, s) ==
    IF s = <<>> THEN <<x>>
    ELSE IF Before(x, Head(s)) THEN <<x>> \o s
    ELSE <<Head(s)>> \o Insert(x, Tail(s))

RECURSIVE SortLimits(_)
SortLimits(s) == IF s = <<>> THEN <<>> ELSE Insert(Head(s), SortLimits(Tail(s)))

-----------------------------------------------------------------------------
\* storage_uri="memory://": the in-memory store with the fixed-window strategy.
\* db is [storage, expirations].

\* get(key): an expired key is dropped before it is read
StorageGet(db, t, k) ==
    IF db.expirations[k] <= t
    THEN [storage     |-> [db.storage EXCEPT ![k] = 0],
          expirations |-> [db.expirations EXCEPT ![k] = 0]]
    ELSE db

\* variant: an expired key is not dropped
IncrKeepWindow(db, t, k, expiry) ==
    LET n == db.storage[k] + 1
    IN  [storage     |-> [db.storage EXCEPT ![k] = n],
         expirations |-> IF n = 1 THEN [db.expirations EXCEPT ![k] = t + expiry]
                         ELSE db.expirations]

\* incr(key, expiry): the window starts at the first hit after the key is empty
Incr(db, t, k, expiry) ==
    LET g == StorageGet(db, t, k)
        n == g.storage[k] + 1
    IN  [storage     |-> [g.storage EXCEPT ![k] = n],
         expirations |-> IF n = 1 THEN [g.expirations EXCEPT ![k] = t + expiry]
                         ELSE g.expirations]

\* variant: one request too many is let through
HitOffByOne(db, t, k, limit) ==
    LET d == Incr(db, t, k, Per(limit))
    IN  [ok |-> d.storage[k] <= Amount(limit) + 1, db |-> d]

\* FixedWindowRateLimiter.hit: count the request, then compare with the amount
Hit(db, t, k, limit) ==
    LET d == Incr(db, t, k, Per(limit))
    IN  [ok |-> d.storage[k] <= Amount(limit), db |-> d]

\* the limits are hit in order; the first one exceeded stops the evaluation
RECURSIVE EvaluateLimits(_, _, _, _, _)
EvaluateLimits(limits, endpoint, key, db, t) ==
    IF limits = <<>> THEN [failed |-> FALSE, db |-> db]
    ELSE LET h == Hit(db, t, <<Head(limits), endpoint, key>>, Head(limits))
         IN  IF ~h.ok THEN [failed |-> TRUE, db |-> h.db]
             ELSE EvaluateLimits(Tail(limits), endpoint, key, h.db, t)

\* the limiter's before_request hook
CheckRequestLimit(req, db, t) ==
    LET endpoint == Endpoint(req.path)
    IN  EvaluateLimits(SortLimits(LimitsFor(endpoint)), endpoint, KeyFunc(req), db, t)

-----------------------------------------------------------------------------
\* The view functions. A response is [status, body, headers, logged]; logged
\* says that the "Index endpoint accessed" line was written.

JsonHeaders == [h \in {"Content-Type"} |-> "application/json"]
HtmlHeaders == [h \in {"Content-Type"} |-> "text/html"]

ValidEnvs == {"dev", "staging", "production"}

\* variant: APP_ENV is passed through
ValidateEnvNone(env) == env

\* if env not in ["dev", "staging", "production"]: env = "dev"
ValidateEnv(env) == IF env \notin ValidEnvs THEN "dev" ELSE env

index(env, host) ==
    [status  |-> 200,
     body    |-> [service     |-> "ci-cd-zero-to-hero",
                  hostname    |-> host,
                  environment |-> ValidateEnv(EnvGet(env, "APP_ENV", "dev")),
                  version     |-> EnvGet(env, "APP_VERSION", "local")],
     headers |-> JsonHeaders,
     logged  |-> TRUE]

health ==
    [status |-> 200, body |-> [status |-> "healthy"], headers |-> JsonHeaders,
     logged |-> FALSE]

ready ==
    [status |-> 200, body |-> [status |-> "ready"], headers |-> JsonHeaders,
     logged |-> FALSE]

\* the framework's responses to RateLimitExceeded and to an unmatched path
TooManyRequests ==
    [status |-> 429, body |-> [error |-> "Too Many Requests"], headers |-> HtmlHeaders,
     logged |-> FALSE]

NotFound ==
    [status |-> 404, body |-> [error |-> "Not Found"], headers |-> HtmlHeaders,
     logged |-> FALSE]

-----------------------------------------------------------------------------
\* Talisman(app, force_https=False, strict_transport_security=True,
\*          content_security_policy={'default-src': "'self'"}):
\* an after_request hook that sets the headers on the response it is given.
\* The Strict-Transport-Security header is sent on secure requests only, and
\* the model's requests are plain HTTP.

SecurityHeaders ==
    [h \in {"X-Frame-Options", "X-Content-Type-Options", "Content-Security-Policy"} |->
        CASE h = "X-Frame-Options"        -> "SAMEORIGIN"
          [] h = "X-Content-Type-Options" -> "nosniff"
          [] OTHER                        -> "default-src 'self'"]

\* variant: only the responses of the views are decorated
SetResponseHeadersOkOnly(resp) ==
    IF resp.status = 200 THEN [resp EXCEPT !.headers = SecurityHeaders @@ resp.headers]
    ELSE resp

SetResponseHeaders(resp) == [resp EXCEPT !.headers = SecurityHeaders @@ resp.headers]

-----------------------------------------------------------------------------
\* One request through the application: the before_request hooks, the view
\* function of the matched route, the after_request hooks on whatever response
\* came out (a view's, or an error handler's).

DispatchRequest(req, env, host) ==
    CASE Endpoint(req.path) = "index"  -> index(env, host)
      [] Endpoint(req.path) = "health" -> health
      [] Endpoint(req.path) = "ready"  -> ready
      [] OTHER                         -> NotFound

FullDispatchRequest(req, db, t, env, host) ==
    LET chk == CheckRequestLimit(req, db, t)
        rv  == IF chk.failed THEN TooManyRequests ELSE DispatchRequest(req, env, host)
    IN  [response |-> SetResponseHeaders(rv), db |-> chk.db]

-----------------------------------------------------------------------------
\* The state machine.

\* values of PORT: str(n) for these integers, and texts that are no integer
PortInts == {0 - 1, 0, 80, 1023, 1024, 8080, 65535, 65536}

PortTexts ==
    {IntText(n) : n \in PortInts}
        \cup {<<>>, <<"a", "b", "c">>, <<"8", "0", "a">>, <<" ", "9", "0", "0", "0", "\n">>,
              <<"+", "3", "0", "0", "0">>, <<"8", "_", "0", "8", "0">>, <<"-">>}

EnvTexts == {"dev", "staging", "production", "prod", "DEV", ""}

VersionTexts == {"1.2.3", "", "local"}

NoResponse ==
    [path |-> "", remote_addr |-> "", status |-> 0, body |-> [error |-> ""],
     headers |-> HtmlHeaders, logged |-> FALSE, before |-> 0]

IndexKey(c) == <<IndexLimit, "index", c>>

Stopped(ports, envs, versions) ==
    /\ serverState = "STOPPED"
    /\ environ \in [PORT : ports, APP_ENV : envs, APP_VERSION : versions]
    /\ hostname \in Hostnames
    /\ port = 0
    /\ now = 0
    /\ storage = [k \in Keys |-> 0]
    /\ expirations = [k \in Keys |-> 0]
    /\ last = NoResponse

\* the process is launched with an environment that sets none of the variables
Init == Stopped({{}}, {{}}, {{}})

\* the process is launched with any environment
InitConfig ==
    Stopped({{}} \cup {{t} : t \in PortTexts},
            {{}} \cup {{e} : e \in EnvTexts},
            {{}} \cup {{v} : v \in VersionTexts})

\* __main__: int() of PORT raises ValueError on text that is no integer, and
\* nothing catches it
Start ==
    /\ serverState = "STOPPED"
    /\ LET parsed == ParseInt(EnvGet(environ, "PORT", DefaultPortText))
       IN  IF parsed.ok
           THEN /\ port' = ResolvePort(parsed.val)
                /\ serverState' = "SERVING"
           ELSE /\ serverState' = "ABORTED"
                /\ UNCHANGED port
    /\ UNCHANGED <<environ, hostname, now, storage, expirations, last>>

\* one request from address c to path
Request(c, path) ==
    /\ serverState = "SERVING"
    /\ \A k \in Keys : storage[k] <= MaxHits
    /\ LET req == [path |-> path, remote_addr |-> c]
           out == FullDispatchRequest(req, [storage |-> storage, expirations |-> expirations],
                                      now, environ, hostname)
       IN  /\ storage' = out.db.storage
           /\ expirations' = out.db.expirations
           /\ last' = [path        |-> path,
                       remote_addr |-> c,
                       status      |-> out.response.status,
                       body        |-> out.response.body,
                       headers     |-> out.response.headers,
                       logged      |-> out.response.logged,
                       before      |-> IF path = "/" THEN storage[IndexKey(c)] ELSE 0]
    /\ UNCHANGED <<serverState, environ, hostname, port, now>>

GetIndex(c) == Request(c, "/")

GetHealth(c) == Request(c, "/health")

GetReady(c) == Request(c, "/ready")

GetMissing(c) == Request(c, "/missing")

\* time passes
Tick ==
    /\ serverState = "SERVING"
    /\ now + TickSeconds <= MaxTime
    /\ now' = now + TickSeconds
    /\ UNCHANGED <<serverState, environ, hostname, port, storage, expirations, last>>

\* os.environ is changed inside the running process
SetEnv(name, value) ==
    /\ serverState = "SERVING"
    /\ name \in {"APP_ENV", "APP_VERSION"}
    /\ environ' = [environ EXCEPT ![name] = value]
    /\ UNCHANGED <<serverState, hostname, port, now, storage, expirations, last>>

Next ==
    \/ Start
    \/ \E c \in Clients : GetIndex(c)
    \/ \E c \in Clients : GetHealth(c)
    \/ \E c \in Clients : GetReady(c)
    \/ \E c \in Clients : GetMissing(c)
    \/ Tick

Spec == Init /\ [][Next]_vars

ConfigClient == CHOOSE c \in Clients : TRUE

NextConfig ==
    \/ Start
    \/ (storage[IndexKey(ConfigClient)] < MaxConfigHits /\ GetIndex(ConfigClient))
    \/ \E e \in {{}} \cup {{t} : t \in EnvTexts} : SetEnv("APP_ENV", e)
    \/ \E v \in {{}} \cup {{t} : t \in VersionTexts} : SetEnv("APP_VERSION", v)

SpecConfig == InitConfig /\ [][NextConfig]_vars

-----------------------------------------------------------------------------
\* Properties.

\* requests to / that the address of the last request has made in its current
\* window of the route limit, the last request included
IndexCount(c) == storage[IndexKey(c)]

WindowOpen(c) == expirations[IndexKey(c)] > now

IsServiceInfo(body) == DOMAIN body = {"service", "hostname", "environment", "version"}

ProbePaths == {"/health", "/ready"}

\* C1: once an address has made 50 requests to / in a window, each further
\* request to / in that window gets 429 and the index view does not run (no log
\* line, no ServiceInfo body); /health and /ready are answered 200 all the same.
C1_BurstRejected ==
    /\ (last.path = "/" /\ IndexCount(last.remote_addr) > 50)
          => /\ last.status = 429
             /\ ~last.logged
             /\ ~IsServiceInfo(last.body)
    /\ last.path \in ProbePaths => last.status = 200

C1_Witness ==
    /\ last.path = "/health"
    /\ last.status = 200
    /\ IndexCount(last.remote_addr) > 50
    /\ WindowOpen(last.remote_addr)

C3_ProbesNeverThrottled ==
    /\ [](/\ last.path = "/health" =>
                last.status = 200 /\ last.body = [status |-> "healthy"]
          /\ last.path = "/ready" =>
                last.status = 200 /\ last.body = [status |-> "ready"])
    /\ [][\A c \in Clients :
            (last'.path \in ProbePaths /\ last'.remote_addr = c
                /\ (GetHealth(c) \/ GetReady(c)))
                => UNCHANGED <<storage, expirations>>]_vars

C3_Witness ==
    /\ last.path = "/ready"
    /\ last.status = 200
    /\ last.body = [status |-> "ready"]
    /\ \E c \in Clients : IndexCount(c) > 50 /\ WindowOpen(c)

\* C4 as stated: whatever PORT holds, startup does not abort.
C4_StartupNeverAborts == serverState # "ABORTED"

\* C5: the port bound is in [1024, 65535]; it is the integer PORT spells when
\* that integer is in the range, and 8080 when PORT is unset or spells an
\* integer outside the range.
C5_PortResolved ==
    serverState = "SERVING" =>
        /\ port \in 1024..65535
        /\ environ.PORT = {} => port = 8080
        /\ \A n \in PortInts :
              environ.PORT = {IntText(n)} =>
                  port = IF n >= 1024 /\ n <= 65535 THEN n ELSE 8080

C5_Witness ==
    /\ serverState = "SERVING"
    /\ environ.PORT = {IntText(65535)}
    /\ port = 65535

\* what the environment field is to be for a value of APP_ENV
ExpectedEnvironment(v) ==
    IF v \in {{"dev"}, {"staging"}, {"production"}} THEN CHOOSE e \in v : TRUE ELSE "dev"

ExpectedVersion(v) == IF v = {} THEN "local" ELSE CHOOSE e \in v : TRUE

\* C6: a request to / that is not rejected returns 200 and an object of exactly
\* the keys service, hostname, environment, version, computed from APP_ENV and
\* APP_VERSION as they are when the request is handled.
C6_ServiceInfo ==
    [][\A c \in Clients :
          (last'.path = "/" /\ last'.status # 429 /\ GetIndex(c)) =>
              /\ last'.status = 200
              /\ IsServiceInfo(last'.body)
              /\ last'.body.service = "ci-cd-zero-to-hero"
              /\ last'.body.hostname = hostname
              /\ last'.body.environment = ExpectedEnvironment(environ.APP_ENV)
              /\ last'.body.environment \in {"dev", "staging", "production"}
              /\ last'.body.version = ExpectedVersion(environ.APP_VERSION)]_vars

C6_Witness ==
    /\ last.path = "/"
    /\ last.status = 200
    /\ environ.APP_ENV = {"prod"}
    /\ environ.APP_VERSION = {""}
    /\ last.body.environment = "dev"
    /\ last.body.version = ""

\* C7: every response carries X-Frame-Options, X-Content-Type-Options and
\* Content-Security-Policy, whatever the route and the status.
C7_SecurityHeaders ==
    last.status # 0 =>
        {"X-Frame-Options", "X-Content-Type-Options", "Content-Security-Policy"}
            \subseteq DOMAIN last.headers

C7_Witness ==
    /\ last.status = 429
    /\ "Content-Security-Policy" \in DOMAIN last.headers

\* C9: a request to / from an address that has made fewer than 50 requests to /
\* in its own current window is answered 200, whatever the other addresses
\* have done.
C9_OwnHistoryOnly ==
    (last.path = "/" /\ IndexCount(last.remote_addr) <= 50) => last.status = 200

C9_Witness ==
    /\ last.path = "/"
    /\ last.status = 200
    /\ \E other \in Clients \ {last.remote_addr} :
          IndexCount(other) > 50 /\ WindowOpen(other)

\* C10: no counter is negative, and the first request to / of an address after
\* the window in which it was rejected has ended starts a new window and is
\* answered 200.
C10_WindowReset ==
    /\ [](\A k \in Keys : storage[k] >= 0 /\ expirations[k] >= 0)
    /\ [][\A c \in Clients :
            (IndexCount(c) > 50 /\ ~WindowOpen(c) /\ GetIndex(c)) =>
                /\ last'.status = 200
                /\ storage'[IndexKey(c)] = 1
                /\ expirations'[IndexKey(c)] = now + 60]_vars

C10_Witness ==
    /\ last.path = "/"
    /\ last.before > 50
    /\ last.status = 200

====
